---------------------------- MODULE Spec2Model ----------------------------
(***************************************************************************)
(* Model of package id_gen (src/id_gen/id_gen.go): the snowflake generator *)
(* (SnowflakeGenerator.GenerateSnowflakeID), its process-wide singleton    *)
(* (once.Do(initSnowflakeGenerator)) and the node identity resolver        *)
(* (getMachineID / getLastIPOctet).                                        *)
(*                                                                         *)
(* The sequence field is 12 bits wide in the source (mask 0xFFF, shifts 12 *)
(* and 22).  The model keeps the layout but scales the width of the        *)
(* sequence field to SeqBits bits, so that the wrap-around of the sequence *)
(* is reached after 2^SeqBits mints in one millisecond instead of 4096.    *)
(* The node field keeps its 10 bits.                                       *)
(***************************************************************************)
EXTENDS Integers, Sequences, FiniteSets, TLC

\* ------------------------------------------------------------------ bounds
MaxCalls   == 4      \* calls started in one behaviour, all callers together
MaxClock   == 2      \* the wall clock runs over 1..MaxClock (milliseconds)
SeqBits    == 1      \* width of the sequence field (12 in the source)
InstCalls  == 3      \* calls started on explicitly constructed generators
LiveCalls  == 3      \* calls started in the behaviours checked for termination
MaxHexLen  == 3      \* GenerateRandomHexString is called with length 0..MaxHexLen

\* ------------------------------------------------------- program constants
NodeBits == 10       \* width of the node field: machineID & 0x3FF
PidMod   == 1024     \* pid % 1024

Callers == {1, 2}    \* the goroutines that call concurrently
GenIds  == {1, 2}    \* the generator instances that can be constructed
Nil     == 0         \* nil pointer / unlocked mutex / no goroutine

\* ------------------------------------------------------------ bit algebra
RECURSIVE BitAnd(_, _)
\* a & b on non-negative integers
BitAnd(a, b) ==
    IF a = 0 \/ b = 0 THEN 0
    ELSE (a % 2) * (b % 2) + 2 * BitAnd(a \div 2, b \div 2)

RECURSIVE BitOr(_, _)
\* a | b on non-negative integers
BitOr(a, b) ==
    IF a = 0 THEN b
    ELSE IF b = 0 THEN a
    ELSE (IF a % 2 = 1 \/ b % 2 = 1 THEN 1 ELSE 0) + 2 * BitOr(a \div 2, b \div 2)

\* a << k and a >> k on non-negative integers
Shl(a, k) == a * (2 ^ k)
Shr(a, k) == a \div (2 ^ k)

SeqMask        == (2 ^ SeqBits) - 1        \* 0xFFF in the source
NodeMask       == (2 ^ NodeBits) - 1       \* 0x3FF
MachineShift   == SeqBits                  \* 12 in the source
TimestampShift == NodeBits + SeqBits       \* 22 in the source

\* two's complement m & NodeMask, also for a negative int64 m: the low
\* NodeBits bits of a negative number are those of m + k * 2^NodeBits
LowBits(m) == IF m >= 0 THEN m ELSE m + (((-m) \div (NodeMask + 1)) + 1) * (NodeMask + 1)

\* mutant: the node field shifted by the width of the node field
ComposeIDNodeShift(timestamp, machine, seq) ==
    BitOr(BitOr(Shl(timestamp, TimestampShift), Shl(machine, NodeBits)), seq)

\* mutant: the node field left out
ComposeIDNoNode(timestamp, machine, seq) ==
    BitOr(Shl(timestamp, TimestampShift), seq)

\* The return expression of GenerateSnowflakeID
ComposeID(timestamp, machine, seq) ==
    BitOr(BitOr(Shl(timestamp, TimestampShift), Shl(machine, MachineShift)), seq)

\* The decoder the layout allows
TimestampOf(v) == Shr(v, TimestampShift)
NodeOf(v)      == BitAnd(Shr(v, MachineShift), NodeMask)
SequenceOf(v)  == BitAnd(v, SeqMask)

\* --------------------------------------------------- node identity resolver
\* An interface address as net.InterfaceAddrs returns it: whether it is a
\* *net.IPNet, whether its IP is a loopback address, whether To4() is non-nil,
\* and the last byte of its 4-byte form.
Addr(isIPNet, loopback, v4, last) ==
    [ipnet |-> isIPNet, loopback |-> loopback, v4 |-> v4, last |-> last]

Loopback4 == Addr(TRUE, TRUE, TRUE, 1)          \* 127.0.0.1/8
Loopback6 == Addr(TRUE, TRUE, FALSE, 0)         \* ::1/128
LinkLocal6 == Addr(TRUE, FALSE, FALSE, 0)       \* fe80::.../64
NotIPNet  == Addr(FALSE, FALSE, TRUE, 9)        \* a net.Addr that is no *net.IPNet

\* The hosts the resolver is run on: [err, addrs, pid]
Host(err, addrs, pid) == [err |-> err, addrs |-> addrs, pid |-> pid]

Hosts ==
    { Host(TRUE,  << >>, 1029),
      Host(FALSE, << >>, 1029),
      Host(FALSE, <<Loopback4, Loopback6>>, 5),
      Host(FALSE, <<Loopback4, LinkLocal6, Addr(TRUE, FALSE, TRUE, 200), Addr(TRUE, FALSE, TRUE, 7)>>, 5),
      Host(FALSE, <<NotIPNet, Addr(TRUE, FALSE, TRUE, 0)>>, 2047),
      Host(FALSE, <<Loopback6, Addr(TRUE, FALSE, TRUE, 255)>>, 5) }

RECURSIVE ScanAddrsWithLoopback(_, _)
\* mutant: loopback addresses are not skipped
ScanAddrsWithLoopback(addrs, i) ==
    IF i > Len(addrs) THEN <<0, FALSE>>
    ELSE IF addrs[i].ipnet /\ addrs[i].v4
         THEN <<addrs[i].last, FALSE>>
         ELSE ScanAddrsWithLoopback(addrs, i + 1)

RECURSIVE ScanAddrs(_, _)
\* the loop of getLastIPOctet from index i on: <<octet, err>>
ScanAddrs(addrs, i) ==
    IF i > Len(addrs) THEN <<0, FALSE>>
    ELSE IF addrs[i].ipnet /\ ~addrs[i].loopback /\ addrs[i].v4
         THEN <<addrs[i].last, FALSE>>
         ELSE ScanAddrs(addrs, i + 1)

\* getLastIPOctet: <<octet, err # nil>>
getLastIPOctet(h) ==
    IF h.err THEN <<0, TRUE>> ELSE ScanAddrs(h.addrs, 1)

\* getMachineID
getMachineID(h) ==
    LET r == getLastIPOctet(h)
    IN  IF ~r[2] THEN r[1] ELSE h.pid % PidMod

\* mutant: the machine ID is stored as given
NewSnowflakeGeneratorNoMask(m) ==
    [lastTimestamp |-> 0, sequence |-> 0, machineID |-> m]

\* NewSnowflakeGenerator: the fields of the new generator
NewSnowflakeGenerator(m) ==
    [lastTimestamp |-> 0, sequence |-> 0, machineID |-> BitAnd(LowBits(m), NodeMask)]

\* ------------------------------------------------------- random hex strings
\* the alphabet of hex.EncodeToString
HexDigits ==
    <<"0", "1", "2", "3", "4", "5", "6", "7", "8", "9", "a", "b", "c", "d", "e", "f">>

\* the two characters hex.EncodeToString writes for one byte
HexByte(b) == <<HexDigits[(b \div 16) + 1], HexDigits[(b % 16) + 1]>>

RECURSIVE EncodeToString(_)
\* hex.EncodeToString, the string as the sequence of its characters
EncodeToString(bytes) ==
    IF bytes = << >> THEN << >>
    ELSE HexByte(Head(bytes)) \o EncodeToString(Tail(bytes))

\* mutant: the error of rand.Read is ignored and the buffer is encoded
RandomHexStringIgnoreErr(err, bytes) == EncodeToString(bytes)

\* GenerateRandomHexString, given what rand.Read did: its error, and the
\* content of the buffer of length bytes after the call
RandomHexString(err, bytes) ==
    IF err THEN << >> ELSE EncodeToString(bytes)

\* the byte values rand.Read is taken to produce
ByteVals == {0, 10, 159, 255}

\* ------------------------------------------------------------------- state
VARIABLES
    clock,              \* time.Now().UnixMilli(), the wall clock in milliseconds
    host,               \* what net.InterfaceAddrs and os.Getpid answer in this process
    once,               \* sync.Once: [done, m] (m: the goroutine holding its mutex)
    snowflakeGenerator, \* the package variable: Nil or a generator
    constructed,        \* number of SnowflakeGenerator instances constructed so far
    ctorArg,            \* per generator: the argument NewSnowflakeGenerator was called with
    lastTimestamp,      \* per generator: field lastTimestamp
    sequence,           \* per generator: field sequence
    machineID,          \* per generator: field machineID
    mutex,              \* per generator: the goroutine holding field mutex, or Nil
    pc,                 \* per caller: where it is in its call
    sg,                 \* per caller: the receiver of the method call
    timestamp,          \* per caller: local variable timestamp
    timeout,            \* per caller: the channel of time.After: "none", "armed", "ready"
    ret,                \* per caller: the value of the return expression
    call,               \* per caller: what is recorded about the call in progress
    budget,             \* number of calls the callers still start
    minted,             \* per generator: its values in the order its critical sections ran
    forced,             \* per generator: whether one of its waits ended by the timeout
    returned,           \* the calls that returned, in the order of the returns
    entropy,            \* the last call of rand.Read: [length, err, bytes]
    hexString           \* what the last call of GenerateRandomHexString returned

vars == <<clock, host, once, snowflakeGenerator, constructed, ctorArg, lastTimestamp,
          sequence, machineID, mutex, pc, sg, timestamp, timeout, ret, call,
          budget, minted, forced, returned, entropy, hexString>>

registryVars == <<once, snowflakeGenerator>>
genVars      == <<constructed, ctorArg, lastTimestamp, sequence, machineID, mutex>>
localVars    == <<sg, timestamp, timeout, ret>>
logVars      == <<minted, forced, returned>>
hexVars      == <<entropy, hexString>>

NoCall == [start |-> 0, idx |-> 0, now |-> 0, entryLast |-> 0, entrySeq |-> 0,
           timedOut |-> FALSE]

\* rand.Read was not called yet
NoEntropy == [length |-> 0, err |-> FALSE, bytes |-> << >>]

\* the state of the process before the first call, on host h, with n calls to come
Start(h, n) ==
    /\ clock = 1
    /\ host = h
    /\ once = [done |-> FALSE, m |-> Nil]
    /\ snowflakeGenerator = Nil
    /\ constructed = 0
    /\ ctorArg = [g \in GenIds |-> 0]
    /\ lastTimestamp = [g \in GenIds |-> 0]
    /\ sequence = [g \in GenIds |-> 0]
    /\ machineID = [g \in GenIds |-> 0]
    /\ mutex = [g \in GenIds |-> Nil]
    /\ pc = [c \in Callers |-> "idle"]
    /\ sg = [c \in Callers |-> Nil]
    /\ timestamp = [c \in Callers |-> 0]
    /\ timeout = [c \in Callers |-> "none"]
    /\ ret = [c \in Callers |-> 0]
    /\ call = [c \in Callers |-> NoCall]
    /\ budget = n
    /\ minted = [g \in GenIds |-> << >>]
    /\ forced = [g \in GenIds |-> FALSE]
    /\ returned = << >>
    /\ entropy = NoEntropy
    /\ hexString = << >>

\* a host whose first non-loopback IPv4 address ends in .200
DefaultHost == Host(FALSE, <<Loopback4, Addr(TRUE, FALSE, TRUE, 200)>>, 5)

Init == Start(DefaultHost, MaxCalls)

\* ------------------------------------------------------------ the registry
\* func GenerateSnowflakeID() int64: a caller enters the package-level function
CallPackage(c) ==
    /\ pc[c] = "idle"
    /\ budget > 0
    /\ budget' = budget - 1
    /\ call' = [call EXCEPT ![c] = [NoCall EXCEPT !.start = clock, !.idx = Len(returned)]]
    /\ pc' = [pc EXCEPT ![c] = "once"]
    /\ UNCHANGED <<clock, host, hexVars, registryVars, genVars, localVars, logVars>>

\* once.Do, fast path: done is set, f is not called
OnceDoFast(c) ==
    /\ pc[c] = "once"
    /\ once.done
    /\ pc' = [pc EXCEPT ![c] = "delegate"]
    /\ UNCHANGED <<clock, host, hexVars, registryVars, genVars, localVars, call, budget, logVars>>

\* once.Do, slow path: done is not set, the caller goes for the mutex of once
OnceDoSlow(c) ==
    /\ pc[c] = "once"
    /\ ~once.done
    /\ pc' = [pc EXCEPT ![c] = "onceLock"]
    /\ UNCHANGED <<clock, host, hexVars, registryVars, genVars, localVars, call, budget, logVars>>

\* mutant: done is not read again under the mutex
OnceLockNoRecheck(c) ==
    /\ pc[c] = "onceLock"
    /\ once.m = Nil
    /\ pc' = [pc EXCEPT ![c] = "init"]
    /\ once' = [once EXCEPT !.m = c]
    /\ UNCHANGED <<clock, host, hexVars, snowflakeGenerator, genVars, localVars, call, budget, logVars>>

\* once.Do, slow path: with the mutex held, done is read again; f runs only
\* if it is still unset, otherwise the mutex is released at once
OnceLock(c) ==
    /\ pc[c] = "onceLock"
    /\ once.m = Nil
    /\ IF once.done
       THEN /\ pc' = [pc EXCEPT ![c] = "delegate"]
            /\ UNCHANGED once
       ELSE /\ pc' = [pc EXCEPT ![c] = "init"]
            /\ once' = [once EXCEPT !.m = c]
    /\ UNCHANGED <<clock, host, hexVars, snowflakeGenerator, genVars, localVars, call, budget, logVars>>

\* func initSnowflakeGenerator()
initSnowflakeGenerator(c) ==
    /\ pc[c] = "init"
    /\ constructed < Cardinality(GenIds)
    /\ LET g   == constructed + 1
           m   == getMachineID(host)
           new == NewSnowflakeGenerator(m)
       IN  /\ constructed' = g
           /\ ctorArg' = [ctorArg EXCEPT ![g] = m]
           /\ lastTimestamp' = [lastTimestamp EXCEPT ![g] = new.lastTimestamp]
           /\ sequence' = [sequence EXCEPT ![g] = new.sequence]
           /\ machineID' = [machineID EXCEPT ![g] = new.machineID]
           /\ snowflakeGenerator' = g
    /\ pc' = [pc EXCEPT ![c] = "onceStore"]
    /\ UNCHANGED <<clock, host, hexVars, once, mutex, localVars, call, budget, logVars>>

\* once.Do, slow path: f returned; done is stored, then the mutex is released
OnceStore(c) ==
    /\ pc[c] = "onceStore"
    /\ once' = [done |-> TRUE, m |-> Nil]
    /\ pc' = [pc EXCEPT ![c] = "delegate"]
    /\ UNCHANGED <<clock, host, hexVars, snowflakeGenerator, genVars, localVars, call, budget, logVars>>

\* return snowflakeGenerator.GenerateSnowflakeID(): the package variable is
\* read and the method is entered; a nil pointer panics in the method
Delegate(c) ==
    /\ pc[c] = "delegate"
    /\ IF snowflakeGenerator = Nil
       THEN /\ pc' = [pc EXCEPT ![c] = "panic"]
            /\ UNCHANGED sg
       ELSE /\ pc' = [pc EXCEPT ![c] = "lock"]
            /\ sg' = [sg EXCEPT ![c] = snowflakeGenerator]
    /\ UNCHANGED <<clock, host, hexVars, registryVars, genVars, timestamp, timeout, ret, call, budget, logVars>>

\* ------------------------------------------------- the snowflake generator
\* sg.mutex.Lock()
\* mutant: Lock does not wait for the holder
MutexLockNoWait(c) ==
    /\ pc[c] = "lock"
    /\ mutex' = [mutex EXCEPT ![sg[c]] = c]
    /\ pc' = [pc EXCEPT ![c] = "now"]
    /\ UNCHANGED <<clock, host, hexVars, registryVars, constructed, ctorArg, lastTimestamp, sequence,
                   machineID, localVars, call, budget, logVars>>

\* sg.mutex.Lock()
MutexLock(c) ==
    /\ pc[c] = "lock"
    /\ mutex[sg[c]] = Nil
    /\ mutex' = [mutex EXCEPT ![sg[c]] = c]
    /\ pc' = [pc EXCEPT ![c] = "now"]
    /\ UNCHANGED <<clock, host, hexVars, registryVars, constructed, ctorArg, lastTimestamp, sequence,
                   machineID, localVars, call, budget, logVars>>

\* mutant: the sequence is incremented without the 0xFFF mask
ReadClockAtNoWrap(c, now) ==
    /\ pc[c] = "now"
    /\ LET g == sg[c]
       IN  /\ timestamp' = [timestamp EXCEPT ![c] = now]
           /\ call' = [call EXCEPT ![c].now = clock,
                                   ![c].entryLast = lastTimestamp[g],
                                   ![c].entrySeq = sequence[g]]
           /\ IF now = lastTimestamp[g]
              THEN sequence' = [sequence EXCEPT ![g] = sequence[g] + 1]
              ELSE sequence' = [sequence EXCEPT ![g] = 0]
           /\ pc' = [pc EXCEPT ![c] = "store"]
    /\ UNCHANGED <<clock, host, hexVars, registryVars, constructed, ctorArg, lastTimestamp,
                   machineID, mutex, sg, timeout, ret, budget, logVars>>

\* timestamp := now and the if statement up to the wait loop
ReadClockAt(c, now) ==
    /\ pc[c] = "now"
    /\ LET g == sg[c]
       IN  /\ timestamp' = [timestamp EXCEPT ![c] = now]
           /\ call' = [call EXCEPT ![c].now = clock,
                                   ![c].entryLast = lastTimestamp[g],
                                   ![c].entrySeq = sequence[g]]
           /\ IF now = lastTimestamp[g]
              THEN LET next == BitAnd(sequence[g] + 1, SeqMask)
                   IN  /\ sequence' = [sequence EXCEPT ![g] = next]
                       /\ IF next = 0
                          THEN /\ timeout' = [timeout EXCEPT ![c] = "armed"]
                               /\ pc' = [pc EXCEPT ![c] = "wait"]
                          ELSE /\ pc' = [pc EXCEPT ![c] = "store"]
                               /\ UNCHANGED timeout
              ELSE /\ sequence' = [sequence EXCEPT ![g] = 0]
                   /\ pc' = [pc EXCEPT ![c] = "store"]
                   /\ UNCHANGED timeout
    /\ UNCHANGED <<clock, host, hexVars, registryVars, constructed, ctorArg, lastTimestamp,
                   machineID, mutex, sg, ret, budget, logVars>>

\* mutant: a clock reading below lastTimestamp is clamped to lastTimestamp
ReadClockClamp(c) ==
    ReadClockAt(c, IF clock < lastTimestamp[sg[c]] THEN lastTimestamp[sg[c]] ELSE clock)

\* timestamp := time.Now().UnixMilli() and the if statement up to the wait loop
ReadClock(c) == ReadClockAt(c, clock)

\* the runtime timer of time.After(time.Millisecond) sends on the channel
TimerExpire(c) ==
    /\ pc[c] = "wait"
    /\ timeout[c] = "armed"
    /\ timeout' = [timeout EXCEPT ![c] = "ready"]
    /\ UNCHANGED <<clock, host, hexVars, registryVars, genVars, pc, sg, timestamp, ret, call,
                   budget, logVars>>

\* mutant: the timeout case leaves the timestamp at lastTimestamp
WaitTimeoutNoAdvance(c) ==
    /\ pc[c] = "wait"
    /\ timeout[c] = "ready"
    /\ timestamp' = [timestamp EXCEPT ![c] = lastTimestamp[sg[c]]]
    /\ timeout' = [timeout EXCEPT ![c] = "none"]
    /\ call' = [call EXCEPT ![c].timedOut = TRUE]
    /\ UNCHANGED <<clock, host, hexVars, registryVars, genVars, pc, sg, ret, budget, logVars>>

\* mutant: the timeout case skips a millisecond
WaitTimeoutSkip(c) ==
    /\ pc[c] = "wait"
    /\ timeout[c] = "ready"
    /\ timestamp' = [timestamp EXCEPT ![c] = lastTimestamp[sg[c]] + 2]
    /\ timeout' = [timeout EXCEPT ![c] = "none"]
    /\ call' = [call EXCEPT ![c].timedOut = TRUE]
    /\ pc' = [pc EXCEPT ![c] = "store"]
    /\ UNCHANGED <<clock, host, hexVars, registryVars, genVars, sg, ret, budget, logVars>>

\* one iteration of the wait loop, case <-timeout
WaitTimeout(c) ==
    /\ pc[c] = "wait"
    /\ timeout[c] = "ready"
    /\ timestamp' = [timestamp EXCEPT ![c] = lastTimestamp[sg[c]] + 1]
    /\ timeout' = [timeout EXCEPT ![c] = "none"]
    /\ call' = [call EXCEPT ![c].timedOut = TRUE]
    /\ pc' = [pc EXCEPT ![c] = "store"]
    /\ UNCHANGED <<clock, host, hexVars, registryVars, genVars, sg, ret, budget, logVars>>

\* mutant: the wait loop is left after one poll, whatever the clock reads
WaitPollOnce(c) ==
    /\ pc[c] = "wait"
    /\ timeout[c] # "ready"
    /\ timestamp' = [timestamp EXCEPT ![c] = clock]
    /\ pc' = [pc EXCEPT ![c] = "store"]
    /\ timeout' = [timeout EXCEPT ![c] = "none"]
    /\ UNCHANGED <<clock, host, hexVars, registryVars, genVars, sg, ret, call, budget, logVars>>

\* one iteration of the wait loop, default case, and the loop condition
WaitPoll(c) ==
    /\ pc[c] = "wait"
    /\ timeout[c] # "ready"
    /\ timestamp' = [timestamp EXCEPT ![c] = clock]
    /\ IF clock <= lastTimestamp[sg[c]]
       THEN UNCHANGED <<pc, timeout>>
       ELSE /\ pc' = [pc EXCEPT ![c] = "store"]
            /\ timeout' = [timeout EXCEPT ![c] = "none"]
    /\ UNCHANGED <<clock, host, hexVars, registryVars, genVars, sg, ret, call, budget, logVars>>

\* mutant: the sequence is also written to the machine ID field
StoreSequenceInMachineID(c) ==
    /\ pc[c] = "store"
    /\ LET g == sg[c]
           v == ComposeID(timestamp[c], machineID[g], sequence[g])
       IN  /\ lastTimestamp' = [lastTimestamp EXCEPT ![g] = timestamp[c]]
           /\ machineID' = [machineID EXCEPT ![g] = sequence[g]]
           /\ ret' = [ret EXCEPT ![c] = v]
           /\ minted' = [minted EXCEPT ![g] = Append(minted[g], v)]
           /\ forced' = [forced EXCEPT ![g] = forced[g] \/ call[c].timedOut]
    /\ pc' = [pc EXCEPT ![c] = "unlock"]
    /\ UNCHANGED <<clock, host, hexVars, registryVars, constructed, ctorArg, sequence, mutex,
                   sg, timestamp, timeout, call, budget, returned>>

\* mutant: lastTimestamp only ever moves forward
StoreKeepMax(c) ==
    /\ pc[c] = "store"
    /\ LET g == sg[c]
           v == ComposeID(timestamp[c], machineID[g], sequence[g])
       IN  /\ lastTimestamp' = [lastTimestamp EXCEPT ![g] =
                                   IF timestamp[c] > lastTimestamp[g]
                                   THEN timestamp[c] ELSE lastTimestamp[g]]
           /\ ret' = [ret EXCEPT ![c] = v]
           /\ minted' = [minted EXCEPT ![g] = Append(minted[g], v)]
           /\ forced' = [forced EXCEPT ![g] = forced[g] \/ call[c].timedOut]
    /\ pc' = [pc EXCEPT ![c] = "unlock"]
    /\ UNCHANGED <<clock, host, hexVars, registryVars, constructed, ctorArg, sequence, machineID, mutex,
                   sg, timestamp, timeout, call, budget, returned>>

\* sg.lastTimestamp = timestamp and the return expression
Store(c) ==
    /\ pc[c] = "store"
    /\ LET g == sg[c]
           v == ComposeID(timestamp[c], machineID[g], sequence[g])
       IN  /\ lastTimestamp' = [lastTimestamp EXCEPT ![g] = timestamp[c]]
           /\ ret' = [ret EXCEPT ![c] = v]
           /\ minted' = [minted EXCEPT ![g] = Append(minted[g], v)]
           /\ forced' = [forced EXCEPT ![g] = forced[g] \/ call[c].timedOut]
    /\ pc' = [pc EXCEPT ![c] = "unlock"]
    /\ UNCHANGED <<clock, host, hexVars, registryVars, constructed, ctorArg, sequence, machineID, mutex,
                   sg, timestamp, timeout, call, budget, returned>>

\* defer sg.mutex.Unlock()
MutexUnlock(c) ==
    /\ pc[c] = "unlock"
    /\ mutex' = [mutex EXCEPT ![sg[c]] = Nil]
    /\ pc' = [pc EXCEPT ![c] = "return"]
    /\ UNCHANGED <<clock, host, hexVars, registryVars, constructed, ctorArg, lastTimestamp, sequence,
                   machineID, localVars, call, budget, logVars>>

\* the caller receives the value
Return(c) ==
    /\ pc[c] = "return"
    /\ returned' = Append(returned,
                     [id |-> ret[c], gen |-> sg[c], idx |-> call[c].idx])
    /\ pc' = [pc EXCEPT ![c] = "idle"]
    /\ sg' = [sg EXCEPT ![c] = Nil]
    /\ timestamp' = [timestamp EXCEPT ![c] = 0]
    /\ ret' = [ret EXCEPT ![c] = 0]
    /\ call' = [call EXCEPT ![c] = NoCall]
    /\ UNCHANGED <<clock, host, hexVars, registryVars, genVars, timeout, budget, minted, forced>>

\* ------------------------------------------------------------ environment
\* the wall clock reaches the next millisecond
Tick ==
    /\ clock < MaxClock
    /\ clock' = clock + 1
    /\ UNCHANGED <<host, hexVars, registryVars, genVars, pc, localVars, call, budget, logVars>>

\* the wall clock is set back by one millisecond (a clock step)
ClockBack ==
    /\ clock > 1
    /\ clock' = clock - 1
    /\ UNCHANGED <<host, hexVars, registryVars, genVars, pc, localVars, call, budget, logVars>>

\* ------------------------------------------- explicitly constructed generators
\* the machine IDs NewSnowflakeGenerator is called with
MachineIDs == {1, 2047}

\* sg := NewSnowflakeGenerator(m), before the goroutines that use it start
Construct(m) ==
    /\ constructed < Cardinality(GenIds)
    /\ \A c \in Callers : pc[c] = "idle"
    /\ returned = << >>
    /\ LET g   == constructed + 1
           new == NewSnowflakeGenerator(m)
       IN  /\ constructed' = g
           /\ ctorArg' = [ctorArg EXCEPT ![g] = m]
           /\ lastTimestamp' = [lastTimestamp EXCEPT ![g] = new.lastTimestamp]
           /\ sequence' = [sequence EXCEPT ![g] = new.sequence]
           /\ machineID' = [machineID EXCEPT ![g] = new.machineID]
    /\ UNCHANGED <<clock, host, hexVars, registryVars, mutex, pc, localVars, call, budget, logVars>>

\* sg.GenerateSnowflakeID() on a generator the program constructed itself:
\* goroutine c mints on generator c
CallMethod(c) ==
    /\ pc[c] = "idle"
    /\ budget > 0
    /\ constructed = Cardinality(GenIds)
    /\ budget' = budget - 1
    /\ call' = [call EXCEPT ![c] = [NoCall EXCEPT !.start = clock, !.idx = Len(returned)]]
    /\ sg' = [sg EXCEPT ![c] = c]
    /\ pc' = [pc EXCEPT ![c] = "lock"]
    /\ UNCHANGED <<clock, host, hexVars, registryVars, genVars, timestamp, timeout, ret, logVars>>

\* the arguments NewSnowflakeGenerator is called with in SpecNew
CtorInputs == {-2048, -1025, -1024, -1, 0, 1, 1023, 1024, 1025, 2047, 2048, 4095}

\* func GenerateRandomHexString(length int) string, with rand.Read failing or
\* filling the buffer with bs
GenerateRandomHexString(length, err, bs) ==
    /\ entropy' = [length |-> length, err |-> err, bytes |-> bs]
    /\ hexString' = RandomHexString(err, bs)
    /\ UNCHANGED <<clock, host, registryVars, genVars, pc, localVars, call, budget, logVars>>

\* ---------------------------------------------------------- specifications
\* the steps of the method, common to every way of calling it
Mint(c) ==
    \/ MutexLock(c)
    \/ ReadClock(c)
    \/ TimerExpire(c)
    \/ WaitTimeout(c)
    \/ WaitPoll(c)
    \/ Store(c)
    \/ MutexUnlock(c)
    \/ Return(c)

\* the steps of the package-level function up to the method call
Registry(c) ==
    \/ CallPackage(c)
    \/ OnceDoFast(c)
    \/ OnceDoSlow(c)
    \/ OnceLock(c)
    \/ initSnowflakeGenerator(c)
    \/ OnceStore(c)
    \/ Delegate(c)

\* Callers of the package-level function, a clock that never moves backward
Next == (\E c \in Callers : Registry(c) \/ Mint(c)) \/ Tick

Spec == Init /\ [][Next]_vars

\* The same, under the scheduling the Go runtime gives: every goroutine that
\* can take a step takes one, sync.Mutex hands the lock to a waiting
\* goroutine (starvation mode), and the timer of time.After fires.  Nothing
\* is assumed of the clock.
Fairness ==
    \A c \in Callers :
        /\ WF_vars(OnceDoFast(c) \/ OnceDoSlow(c) \/ initSnowflakeGenerator(c)
                     \/ OnceStore(c) \/ Delegate(c))
        /\ SF_vars(OnceLock(c))
        /\ SF_vars(MutexLock(c))
        /\ WF_vars(ReadClock(c) \/ WaitTimeout(c) \/ WaitPoll(c) \/ Store(c)
                     \/ MutexUnlock(c) \/ Return(c))
        /\ WF_vars(TimerExpire(c))

InitFair == Start(DefaultHost, LiveCalls)

FairSpec == InitFair /\ [][Next]_vars /\ Fairness

\* The package-level function on every host of Hosts
InitHost == \E h \in Hosts : Start(h, MaxCalls)

SpecHost == InitHost /\ [][Next]_vars

\* Generators the program constructs itself, and a clock that may be set back
NextInst ==
    \/ \E m \in MachineIDs : Construct(m)
    \/ \E c \in Callers : CallMethod(c) \/ Mint(c)
    \/ Tick
    \/ ClockBack

InitInst == \E h \in Hosts : h.err /\ Start(h, InstCalls)

SpecInst == InitInst /\ [][NextInst]_vars

\* NewSnowflakeGenerator alone, on the arguments of CtorInputs
NextNew == \E m \in CtorInputs : Construct(m)

InitNew == Start(DefaultHost, 0)

SpecNew == InitNew /\ [][NextNew]_vars

\* GenerateRandomHexString alone
NextHex ==
    \E length \in 0..MaxHexLen, err \in BOOLEAN :
        \E bs \in [1..length -> ByteVals] : GenerateRandomHexString(length, err, bs)

SpecHex == InitNew /\ [][NextHex]_vars

TypeOK ==
    /\ clock \in 1..MaxClock
    /\ pc \in [Callers -> {"idle", "once", "onceLock", "init", "onceStore", "delegate",
                           "lock", "now", "wait", "store", "unlock", "return", "panic"}]
    /\ Len(returned) <= MaxCalls

\* ------------------------------------------------------------------ claims
Returns == 1..Len(returned)

\* caller c is inside the method, between Lock and Unlock
InCritical(c) == pc[c] \in {"now", "wait", "store", "unlock"}

\* caller c is past once.Do
PastOnce(c) == pc[c] \in {"delegate", "lock", "now", "wait", "store", "unlock", "return"}

\* C1: the values returned by concurrent callers of one shared generator,
\* under a clock that never moves backward, are pairwise distinct.
C1_Distinct ==
    \A i, j \in Returns : i # j => returned[i].id # returned[j].id

\* C2: when a call starts after another call returned (idx is the number of
\* returns that happened before the call started), its value is strictly
\* greater than that call's value.
C2_SequentialIncreasing ==
    \A i, j \in Returns : i <= returned[j].idx => returned[i].id < returned[j].id

\* C3: a value returned before another, in the order of the return events
\* of possibly overlapping calls, is strictly less than it.
C3_ReturnOrderIncreasing ==
    \A i, j \in Returns : i < j => returned[i].id < returned[j].id

\* C4: while the clock stays on the millisecond T = 1 it started on, no value
\* is minted twice and every mint after the first 2^SeqBits ones carries a
\* timestamp strictly greater than T.
C4_Exhaustion ==
    clock = 1 =>
        \A g \in GenIds :
            /\ \A i, j \in 1..Len(minted[g]) : i # j => minted[g][i] # minted[g][j]
            /\ \A k \in 1..Len(minted[g]) :
                   k > SeqMask + 1 => TimestampOf(minted[g][k]) > 1

\* C5: racing first callers of the package-level function construct the
\* generator exactly once; whoever is past once.Do finds the one fully
\* constructed generator, and every caller mints on that instance.
C5_ConstructOnce ==
    /\ constructed <= 1
    /\ \A c \in Callers :
           /\ pc[c] # "panic"
           /\ PastOnce(c) => once.done /\ constructed = 1 /\ snowflakeGenerator = 1
           /\ sg[c] # Nil => sg[c] = snowflakeGenerator
    /\ \A i \in Returns : returned[i].gen = snowflakeGenerator

\* C5 witness: one caller took the slow path of once.Do and waits for its
\* mutex while the other has finished the initialization
C5_Witness ==
    \E a, b \in Callers :
        /\ pc[a] = "onceLock"
        /\ PastOnce(b)
        /\ once.done
        /\ constructed = 1

\* C6: under fair scheduling every call returns (a caller waiting for the
\* lock gets it, the wait loop is left even when the clock stands still), no
\* call fails, and the lock is held only by a caller inside the method.
C6_AlwaysReturns ==
    /\ \A c \in Callers : (pc[c] # "idle") ~> (pc[c] = "idle")
    /\ [](\A c \in Callers : pc[c] # "panic")
    /\ [](\A g \in GenIds : mutex[g] # Nil => InCritical(mutex[g]) /\ sg[mutex[g]] = g)

\* C6 witness: a caller has returned from a call whose wait loop was left by
\* the timeout while the clock stood still, and the lock is free again
C6_Witness ==
    \E c \in Callers :
        /\ pc[c] = "return"
        /\ call[c].timedOut
        /\ clock = call[c].entryLast
        /\ mutex[sg[c]] = Nil

\* C7 as stated: the timestamp field of a returned value lies between the
\* clock at the start of the call and the clock at its return.
C7_Window ==
    \A c \in Callers :
        pc[c] = "return" =>
            /\ call[c].start <= TimestampOf(ret[c])
            /\ TimestampOf(ret[c]) <= clock

\* C7 amended: with a clock that never moves backward the timestamp field is
\* at least the clock at the start of the call; it is at most the clock at
\* the return unless the wait ended by the timeout, and then it is the
\* lastTimestamp found at entry plus one, at most one millisecond ahead of
\* the clock at the return.
C7_WindowAmended ==
    \A c \in Callers :
        pc[c] = "return" =>
            /\ call[c].start <= TimestampOf(ret[c])
            /\ ~call[c].timedOut => TimestampOf(ret[c]) <= clock
            /\ call[c].timedOut =>
                   /\ TimestampOf(ret[c]) = call[c].entryLast + 1
                   /\ TimestampOf(ret[c]) <= clock + 1

\* C7 witness: a value about to be returned whose timestamp is ahead of the clock
C7_Witness ==
    \E c \in Callers :
        /\ pc[c] = "return"
        /\ call[c].timedOut
        /\ TimestampOf(ret[c]) > clock

\* C8: a minted value decomposes into the generator's state after the call:
\* timestamp field = lastTimestamp, node field = machineID, sequence field =
\* sequence, within 0..SeqMask; the fields do not overlap (the value is the
\* sum of the shifted fields).
C8_Layout ==
    \A c \in Callers :
        pc[c] = "unlock" =>
            LET g == sg[c] IN
            /\ TimestampOf(ret[c]) = lastTimestamp[g]
            /\ NodeOf(ret[c]) = machineID[g]
            /\ SequenceOf(ret[c]) = sequence[g]
            /\ sequence[g] \in 0..SeqMask
            /\ ret[c] = lastTimestamp[g] * (2 ^ TimestampShift)
                          + machineID[g] * (2 ^ MachineShift) + sequence[g]

\* C8 witness: a value with the node field full and the sequence field at
\* its maximum
C8_Witness ==
    \E c \in Callers :
        /\ pc[c] = "unlock"
        /\ machineID[sg[c]] = NodeMask
        /\ sequence[sg[c]] = SeqMask
        /\ lastTimestamp[sg[c]] > 1

\* a host with an address getLastIPOctet accepts
Qualifies(h) ==
    \E i \in 1..Len(h.addrs) :
        h.addrs[i].ipnet /\ ~h.addrs[i].loopback /\ h.addrs[i].v4

\* C9: when the enumeration fails, and when it succeeds without a
\* non-loopback IPv4 address, the machine ID is the process ID modulo 1024.
C9_Fallback ==
    (constructed >= 1 /\ (host.err \/ ~Qualifies(host))) =>
        machineID[1] = host.pid % PidMod

\* C10: two generators with distinct node discriminators never return the
\* same value, whatever the clock does.
C10_DistinctNodes ==
    \A i, j \in Returns :
        machineID[returned[i].gen] # machineID[returned[j].gen]
            => returned[i].id # returned[j].id

\* C10 witness: both generators, with distinct node discriminators, have
\* returned a value with the same timestamp and sequence fields
C10_Witness ==
    \E i, j \in Returns :
        /\ machineID[returned[i].gen] # machineID[returned[j].gen]
        /\ TimestampOf(returned[i].id) = TimestampOf(returned[j].id)
        /\ SequenceOf(returned[i].id) = SequenceOf(returned[j].id)

\* C11: NewSnowflakeGenerator accepts every integer m; the node discriminator
\* of the new generator is m & 0x3FF (m modulo 1024, in two's complement),
\* within 0..1023, 2047 gives 1023, and lastTimestamp and sequence start at 0.
C11_Masking ==
    /\ constructed < Cardinality(GenIds) => \A m \in CtorInputs : ENABLED Construct(m)
    /\ \A g \in GenIds :
           g <= constructed =>
               /\ machineID[g] = ctorArg[g] % 1024
               /\ machineID[g] \in 0..1023
               /\ ctorArg[g] = 2047 => machineID[g] = 1023
               /\ lastTimestamp[g] = 0
               /\ sequence[g] = 0

\* C11 witness: one generator constructed with a negative argument, one with 2047
C11_Witness ==
    /\ constructed = 2
    /\ ctorArg[1] < 0
    /\ ctorArg[2] = 2047
    /\ machineID[2] = 1023

\* the first address of h, in enumeration order, that getLastIPOctet accepts
FirstQualifying(h) ==
    CHOOSE i \in 1..Len(h.addrs) :
        /\ h.addrs[i].ipnet /\ ~h.addrs[i].loopback /\ h.addrs[i].v4
        /\ \A j \in 1..(i - 1) :
               ~(h.addrs[j].ipnet /\ ~h.addrs[j].loopback /\ h.addrs[j].v4)

\* C12: on a host with a non-loopback IPv4 address the resolver returns the
\* last byte of the first such address; its result (the argument the
\* generator is constructed with) is always within 0..1023, and a failed
\* enumeration ends in the process ID modulo 1024, not in an error.
C12_FirstIPv4 ==
    constructed >= 1 =>
        /\ ctorArg[1] \in 0..1023
        /\ (~host.err /\ Qualifies(host)) =>
               ctorArg[1] = host.addrs[FirstQualifying(host)].last
        /\ host.err => ctorArg[1] = host.pid % 1024
        /\ \A c \in Callers : pc[c] # "panic"

\* C12 witness: the resolver skipped a loopback and a non-IPv4 address
C12_Witness ==
    /\ constructed >= 1
    /\ ~host.err
    /\ Qualifies(host)
    /\ FirstQualifying(host) > 2
    /\ ctorArg[1] = 200

\* the characters of a lowercase hexadecimal string
LowerHex == {"0", "1", "2", "3", "4", "5", "6", "7", "8", "9", "a", "b", "c", "d", "e", "f"}

\* C13: GenerateRandomHexString returns the empty string when rand.Read
\* fails, and otherwise 2 * length lowercase hexadecimal characters.
C13_HexString ==
    /\ entropy.err => hexString = << >>
    /\ ~entropy.err =>
           /\ Len(hexString) = 2 * entropy.length
           /\ \A i \in 1..Len(hexString) : hexString[i] \in LowerHex

\* C13 witness: two bytes read and encoded, with letters among the digits
C13_Witness ==
    /\ ~entropy.err
    /\ entropy.bytes = <<10, 255>>
    /\ hexString = <<"0", "a", "f", "f">>

\* C13 witness of the failure: rand.Read failed on a buffer of three bytes
C13_FailureReached ==
    /\ entropy.err
    /\ entropy.length = 3
    /\ hexString = << >>

\* C14: at most one caller is between Lock and Unlock of one generator, and
\* the caller that reads the clock, updates the state, polls in the wait
\* loop or computes the return value is the one holding the lock.
C14_MutualExclusion ==
    /\ \A c, d \in Callers :
           (c # d /\ InCritical(c) /\ InCritical(d)) => sg[c] # sg[d]
    /\ \A c \in Callers : InCritical(c) => mutex[sg[c]] = c
    /\ \A g \in GenIds :
           mutex[g] # Nil => (InCritical(mutex[g]) /\ sg[mutex[g]] = g)

\* C14 witness: one caller polls in the wait loop while the other is
\* blocked in Lock on the same generator
C14_Witness ==
    \E c, d \in Callers :
        /\ c # d
        /\ pc[c] = "wait"
        /\ pc[d] = "lock"
        /\ sg[c] = sg[d]

\* C15: a mint that read a clock value equal to lastTimestamp leaves
\* sequence at (sequence + 1) modulo the sequence range; a non-zero result
\* keeps the timestamp, a wrap to 0 gives a timestamp above the
\* lastTimestamp seen at entry: lastTimestamp + 1 after the timeout,
\* otherwise a clock reading.
C15_SameMillisecond ==
    \A c \in Callers :
        (pc[c] = "unlock" /\ call[c].now = call[c].entryLast) =>
            /\ sequence[sg[c]] = (call[c].entrySeq + 1) % (SeqMask + 1)
            /\ SequenceOf(ret[c]) = sequence[sg[c]]
            /\ sequence[sg[c]] # 0 =>
                   /\ TimestampOf(ret[c]) = call[c].entryLast
                   /\ ~call[c].timedOut
            /\ sequence[sg[c]] = 0 =>
                   /\ TimestampOf(ret[c]) > call[c].entryLast
                   /\ call[c].timedOut => TimestampOf(ret[c]) = call[c].entryLast + 1
                   /\ ~call[c].timedOut =>
                          TimestampOf(ret[c]) \in (call[c].now + 1)..clock

\* C15 witness: the sequence wrapped and the wait ended by a clock reading
C15_Witness ==
    \E c \in Callers :
        /\ pc[c] = "unlock"
        /\ call[c].now = call[c].entryLast
        /\ call[c].entrySeq = SeqMask
        /\ sequence[sg[c]] = 0
        /\ ~call[c].timedOut
        /\ TimestampOf(ret[c]) = call[c].entryLast + 1

\* C15 witness of the other two cases: the sequence was incremented within
\* the millisecond, and a wait was ended by the timeout
C15_IncrementAndTimeoutReached ==
    /\ \E i \in 1..Len(minted[1]) : SequenceOf(minted[1][i]) = 1
    /\ \E c \in Callers :
           /\ pc[c] = "unlock"
           /\ call[c].timedOut
           /\ clock = call[c].entryLast

\* C16: a mint that read a clock value different from lastTimestamp, above
\* or below it, leaves sequence at 0 and lastTimestamp at the value read and
\* returns that value with sequence 0, without entering the wait loop.
C16_OtherMillisecond ==
    \A c \in Callers :
        (pc[c] = "unlock" /\ call[c].now # call[c].entryLast) =>
            /\ sequence[sg[c]] = 0
            /\ lastTimestamp[sg[c]] = call[c].now
            /\ TimestampOf(ret[c]) = call[c].now
            /\ SequenceOf(ret[c]) = 0
            /\ ~call[c].timedOut
            /\ timeout[c] = "none"

\* C16 witness: the clock value read was below lastTimestamp
C16_Witness ==
    \E c \in Callers :
        /\ pc[c] = "unlock"
        /\ call[c].now < call[c].entryLast
        /\ call[c].entrySeq # 0
        /\ lastTimestamp[sg[c]] = call[c].now

\* C17: with a clock that never moves backward, a mint leaves lastTimestamp
\* at or above the lastTimestamp it found.
C17_Watermark ==
    \A c \in Callers :
        pc[c] = "unlock" => lastTimestamp[sg[c]] >= call[c].entryLast

\* C18: once the clock may move backward, a mint that reads a clock value
\* below lastTimestamp returns a value smaller than the value the same
\* generator minted just before; the witness is such an execution.
C18_BackwardClockSmallerValue ==
    \A c \in Callers :
        (pc[c] = "unlock" /\ call[c].now < call[c].entryLast) =>
            LET m == minted[sg[c]]
            IN  /\ Len(m) >= 2
                /\ m[Len(m)] = ret[c]
                /\ TimestampOf(m[Len(m) - 1]) = call[c].entryLast
                /\ m[Len(m)] < m[Len(m) - 1]

\* C18 witness: no wait was ended by the timeout, so lastTimestamp was a
\* clock reading and the clock moved backward between two mints; the later
\* of two returned values of one generator is the smaller one
C18_Witness ==
    \E i, j \in Returns :
        /\ i < j
        /\ returned[i].gen = returned[j].gen
        /\ ~forced[returned[i].gen]
        /\ returned[j].id < returned[i].id

\* C19: as long as no wait of a generator was ended by the timeout, and the
\* clock never moves backward, the values it minted are strictly increasing
\* in the order in which the calls acquired the lock.
C19_IncreasingWithoutTimeout ==
    \A g \in GenIds :
        ~forced[g] =>
            \A i, j \in 1..Len(minted[g]) : i < j => minted[g][i] < minted[g][j]

\* C19 witness: a sequence wrap was waited out by the clock, after two
\* earlier mints and with no timeout so far
C19_Witness ==
    \E c \in Callers :
        /\ pc[c] = "unlock"
        /\ call[c].now = call[c].entryLast
        /\ sequence[sg[c]] = 0
        /\ ~forced[sg[c]]
        /\ Len(minted[sg[c]]) >= 3

\* C20: every generator has sequence within the sequence range and a
\* machine ID within 0..1023, and no step after its construction changes
\* the machine ID: a mint changes lastTimestamp and sequence only.
C20_RangesAndFrame ==
    /\ [](\A g \in GenIds :
              /\ sequence[g] \in 0..SeqMask
              /\ machineID[g] \in 0..NodeMask)
    /\ [][\A g \in GenIds :
              g <= constructed =>
                  /\ machineID'[g] = machineID[g]
                  /\ ctorArg'[g] = ctorArg[g]]_vars
    /\ [][\A c \in Callers :
              Mint(c) => /\ machineID' = machineID
                         /\ constructed' = constructed]_vars

\* C20 witness: a generator with machine ID 255 minted with sequence at its
\* maximum and then with another lastTimestamp
C20_Witness ==
    \E g \in GenIds :
        /\ g <= constructed
        /\ machineID[g] = 255
        /\ Len(minted[g]) >= 3
        /\ \E i \in 1..Len(minted[g]) : SequenceOf(minted[g][i]) = SeqMask
        /\ \E i, j \in 1..Len(minted[g]) :
               TimestampOf(minted[g][i]) # TimestampOf(minted[g][j])
        /\ \A i \in 1..Len(minted[g]) : NodeOf(minted[g][i]) = 255

=============================================================================
